---- MODULE Spec2Model ----
(***************************************************************************)
(* cctr: a command-line translation tool.  The model covers                *)
(*   - LanguageDetector.detect and Translator.auto_translate / translate   *)
(*     (src/src/cctr/translator.py),                                       *)
(*   - the streamed exchange of Translator._translate_async,               *)
(*   - the configuration store Config (src/src/cctr/config.py),            *)
(*   - the command-line entry point main (src/src/cctr/cli.py).            *)
(*                                                                         *)
(* Conventions.  A Python str that is scanned character by character is a  *)
(* sequence of code points; a str that is only compared or used as a key   *)
(* (language codes, model names, configuration keys) is a TLA+ string.     *)
(* An Optional value is a sequence of length at most one: <<>> is None.    *)
(***************************************************************************)
EXTENDS Integers, Sequences, FiniteSets, TLC

VARIABLES
    pc,                 \* position of the running call
    args,               \* argparse namespace of the invocation
    stdin,              \* standard input: [isatty, content]
    locale,             \* language part of the system locale
    config_file,        \* the persisted YAML file: <<>> when it does not exist
    _config,            \* Config._config: <<>> before construction, else <<dict>>
    last_set,           \* ghost: key -> value most recently passed to a setter
    ops,                \* ghost: number of configuration store operations so far
    exit_code,          \* return value of main: <<>> while running
    stdout,             \* lines written to standard output
    model,              \* Translator.model
    quiet,              \* Translator.quiet
    progress_callback,  \* whether Translator.progress_callback is supplied
    text,               \* text handed to translate / auto_translate
    native_language,    \* auto_translate's native_language argument
    target_language,    \* translate's target_language argument
    source_language,    \* translate's source_language argument (Optional)
    prompt,             \* the prompt built by translate
    requests,           \* requests sent to the external agent, in order
    stream,             \* what client.receive_messages() will yield, in order
    message_count,      \* messages consumed so far
    assistant_messages, \* collected turn strings
    accumulated_text,   \* running text for the preview
    tool_uses,          \* names of the tools seen
    total_cost,         \* Optional cost
    callbacks,          \* invocations of the progress callback, in order
    result              \* return value of translate: <<>> until it returns

vars == << pc, args, stdin, locale, config_file, _config, last_set, ops,
           exit_code, stdout, model, quiet, progress_callback, text,
           native_language, target_language, source_language, prompt,
           requests, stream, message_count, assistant_messages,
           accumulated_text, tool_uses, total_cost, callbacks, result >>

cliVars == << args, stdin, locale, exit_code, stdout >>
configVars == << config_file, _config, last_set, ops >>
translatorVars == << model, quiet, progress_callback >>
callVars == << text, native_language, target_language, source_language, prompt >>
exchangeVars == << requests, stream, message_count, assistant_messages,
                   accumulated_text, tool_uses, total_cost, callbacks, result >>

-----------------------------------------------------------------------------
(* Bounds of the model.                                                    *)

MaxTextLen == 2
MaxEvents == 3
MaxOps == 3
LongLen == 51

-----------------------------------------------------------------------------
(* Optional values and strings of code points.                             *)

None == <<>>
Some(v) == <<v>>
IsNone(o) == o = <<>>
Value(o) == o[1]

\* Sequences over S of length at most n.
SeqUpTo(S, n) == UNION { [1..k -> S] : k \in 0..n }

\* str.isspace() for one code point, as str.strip() with no argument uses it.
IsSpace(c) ==
    \/ c \in 9..13
    \/ c \in 28..32
    \/ c \in {133, 160, 5760, 8232, 8233, 8239, 8287, 12288}
    \/ c \in 8192..8202

RECURSIVE LStrip(_)
LStrip(s) ==
    IF s = <<>> THEN <<>>
    ELSE IF IsSpace(Head(s)) THEN LStrip(Tail(s)) ELSE s

RECURSIVE RStrip(_)
RStrip(s) ==
    IF s = <<>> THEN <<>>
    ELSE IF IsSpace(s[Len(s)]) THEN RStrip(SubSeq(s, 1, Len(s) - 1)) ELSE s

\* str.strip()
Strip(s) == RStrip(LStrip(s))

\* "".join(parts)
RECURSIVE Join(_)
Join(parts) ==
    IF parts = <<>> THEN <<>> ELSE Head(parts) \o Join(Tail(parts))

-----------------------------------------------------------------------------
(* LanguageDetector.detect                                                 *)

HiraganaStart == 12352   \* 0x3040
HiraganaEnd == 12447     \* 0x309F
KatakanaStart == 12448   \* 0x30A0
KatakanaEnd == 12543     \* 0x30FF
KanjiStart == 19968      \* 0x4E00
KanjiEnd == 40959        \* 0x9FFF

japanese_ranges ==
    << <<HiraganaStart, HiraganaEnd>>,
       <<KatakanaStart, KatakanaEnd>>,
       <<KanjiStart, KanjiEnd>> >>

\* The inner loop: does some range hold the code point?
InRanges(code, ranges) ==
    \E r \in 1..Len(ranges) : ranges[r][1] <= code /\ code <= ranges[r][2]

\* A detector whose Katakana range is missing.
RECURSIVE detectNoKatakana(_)
detectNoKatakana(t) ==
    IF t = <<>> THEN "en"
    ELSE IF InRanges(Head(t), << japanese_ranges[1], japanese_ranges[3] >>)
         THEN "ja"
         ELSE detectNoKatakana(Tail(t))

\* The outer loop over the characters, returning at the first match.
RECURSIVE detect(_)
detect(t) ==
    IF t = <<>> THEN "en"
    ELSE IF InRanges(Head(t), japanese_ranges) THEN "ja" ELSE detect(Tail(t))

-----------------------------------------------------------------------------
(* Translator: names, aliases, construction.                               *)

LanguageCodes == {"en", "ja", "zh", "ko", "es", "fr", "de", "it", "pt", "ru"}

LANGUAGE_NAMES ==
    [c \in LanguageCodes |->
        CASE c = "en" -> "English"
          [] c = "ja" -> "Japanese"
          [] c = "zh" -> "Chinese"
          [] c = "ko" -> "Korean"
          [] c = "es" -> "Spanish"
          [] c = "fr" -> "French"
          [] c = "de" -> "German"
          [] c = "it" -> "Italian"
          [] c = "pt" -> "Portuguese"
          [] c = "ru" -> "Russian"]

_get_language_name(code) ==
    IF code \in DOMAIN LANGUAGE_NAMES THEN LANGUAGE_NAMES[code] ELSE code

ModelAliases == {"haiku", "sonnet", "opus"}

MODEL_ALIASES ==
    [m \in ModelAliases |->
        CASE m = "haiku" -> "claude-3-5-haiku-20241022"
          [] m = "sonnet" -> "claude-3-5-sonnet-20241022"
          [] m = "opus" -> "claude-opus-4-20250514"]

\* A constructor that keeps the name it is given.
_resolve_model_verbatim(m) == m

_resolve_model(m) ==
    IF m \in DOMAIN MODEL_ALIASES THEN MODEL_ALIASES[m] ELSE m

-----------------------------------------------------------------------------
(* Translator.auto_translate and Translator.translate                      *)

\* A target selector that never translates a text to its own language.
SelectTargetNoSelf(detected_lang, native) ==
    IF detected_lang = native
    THEN (IF native = "en" THEN "ja" ELSE "en")
    ELSE native

\* The if/else of auto_translate.
SelectTarget(detected_lang, native) ==
    IF detected_lang = native THEN "en" ELSE native

auto_translate ==
    /\ pc = "auto_translate"
    /\ LET detected_lang == detect(text)
       IN  /\ target_language' = SelectTarget(detected_lang, native_language)
           /\ source_language' = Some(detected_lang)
    /\ pc' = "translate"
    /\ UNCHANGED << text, native_language, prompt >>
    /\ UNCHANGED << cliVars, configVars, translatorVars, exchangeVars >>

\* The prompt, by the three values interpolated into it.
BuildPrompt(src, tgt, t) ==
    [source |-> _get_language_name(src),
     target |-> _get_language_name(tgt),
     text |-> t]

translate ==
    /\ pc = "translate"
    /\ LET src == IF IsNone(source_language)
                  THEN detect(text)
                  ELSE Value(source_language)
       IN  /\ source_language' = Some(src)
           /\ prompt' = Some(BuildPrompt(src, target_language, text))
    /\ pc' = "query"
    /\ UNCHANGED << text, native_language, target_language >>
    /\ UNCHANGED << cliVars, configVars, translatorVars, exchangeVars >>

-----------------------------------------------------------------------------
(* Translator._translate_async: the streamed exchange.                     *)
(*                                                                         *)
(* A message of the stream is a record [type, content, total_cost_usd];    *)
(* a content block is a record [type, text, name].  The pseudo-message of  *)
(* type "raise" stands for the transport raising at that point of the      *)
(* iteration instead of yielding a message.                                *)

PreviewLimit == 50
PreviewCut == 47
Ellipsis == <<46, 46, 46>>

TextBlock(t) == [type |-> "TextBlock", text |-> t, name |-> ""]
ToolUseBlock(n) == [type |-> "ToolUseBlock", text |-> <<>>, name |-> n]
ThinkingBlock == [type |-> "ThinkingBlock", text |-> <<>>, name |-> ""]

AssistantMessage(content) ==
    [type |-> "AssistantMessage", content |-> content, total_cost_usd |-> None]
UserMessage ==
    [type |-> "UserMessage", content |-> <<>>, total_cost_usd |-> None]
SystemMessage ==
    [type |-> "SystemMessage", content |-> <<>>, total_cost_usd |-> None]
ResultMessage(cost) ==
    [type |-> "ResultMessage", content |-> <<>>, total_cost_usd |-> cost]
TransportRaise ==
    [type |-> "raise", content |-> <<>>, total_cost_usd |-> None]

\* Python truthiness of an Optional number: None and 0 are false.
Truthy(cost) == ~IsNone(cost) /\ Value(cost) # 0

\* A progress message, by its kind and the values interpolated into it.
TranslatingMsg(preview) ==
    [kind |-> "Translating", preview |-> preview, name |-> "", shown_cost |-> None]
UsingToolMsg(n) ==
    [kind |-> "Using tool", preview |-> <<>>, name |-> n, shown_cost |-> None]
CompleteMsg(shown) ==
    [kind |-> "Translation complete", preview |-> <<>>, name |-> "",
     shown_cost |-> shown]

\* A preview cut the way the debug line cuts it: 50 characters and the dots.
PreviewUncut(acc) ==
    LET preview == Strip(acc)
    IN  IF Len(preview) > PreviewLimit
        THEN SubSeq(preview, 1, PreviewLimit) \o Ellipsis
        ELSE preview

\* The preview of the accumulated text.
Preview(acc) ==
    LET preview == Strip(acc)
    IN  IF Len(preview) > PreviewLimit
        THEN SubSeq(preview, 1, PreviewCut) \o Ellipsis
        ELSE preview

\* "if self.progress_callback and not self.quiet"
CallbackEnabled == progress_callback /\ ~quiet

\* self.progress_callback(message, cost), under its guard.
Notify(cbs, message, cost) ==
    IF CallbackEnabled
    THEN Append(cbs, [message |-> message, cost |-> cost])
    ELSE cbs

\* A block handler that collects the text only where it reports it.
ProcessBlockGuarded(block, st) ==
    CASE block.type = "TextBlock" ->
            LET acc == st.accumulated_text \o block.text
            IN  IF CallbackEnabled
                THEN [st EXCEPT !.text_blocks = Append(@, block.text),
                                !.accumulated_text = acc,
                                !.callbacks = Notify(@, TranslatingMsg(Preview(acc)), None)]
                ELSE st
      [] block.type = "ToolUseBlock" ->
            [st EXCEPT !.tool_uses = Append(@, block.name),
                       !.callbacks = Notify(@, UsingToolMsg(block.name), None)]
      [] OTHER -> st

\* A block handler that starts the turn afresh at a tool block, so that
\* only the text after the last tool block of a message is collected.
ProcessBlockSplitAtTool(block, st) ==
    CASE block.type = "TextBlock" ->
            LET acc == st.accumulated_text \o block.text
            IN  [st EXCEPT !.text_blocks = Append(@, block.text),
                           !.accumulated_text = acc,
                           !.callbacks = Notify(@, TranslatingMsg(Preview(acc)), None)]
      [] block.type = "ToolUseBlock" ->
            [st EXCEPT !.text_blocks = <<>>,
                       !.tool_uses = Append(@, block.name),
                       !.callbacks = Notify(@, UsingToolMsg(block.name), None)]
      [] OTHER -> st

\* One block of an AssistantMessage; st holds the locals the loop updates.
ProcessBlock(block, st) ==
    CASE block.type = "TextBlock" ->
            LET acc == st.accumulated_text \o block.text
            IN  [st EXCEPT !.text_blocks = Append(@, block.text),
                           !.accumulated_text = acc,
                           !.callbacks = Notify(@, TranslatingMsg(Preview(acc)), None)]
      [] block.type = "ToolUseBlock" ->
            [st EXCEPT !.tool_uses = Append(@, block.name),
                       !.callbacks = Notify(@, UsingToolMsg(block.name), None)]
      [] OTHER -> st

\* "for block in message.content"
RECURSIVE ProcessBlocks(_, _)
ProcessBlocks(content, st) ==
    IF content = <<>> THEN st
    ELSE ProcessBlocks(Tail(content), ProcessBlock(Head(content), st))

\* A return statement that joins every turn instead of taking the last.
ReturnAllTurns(msgs) ==
    IF msgs # <<>> THEN Strip(Join(msgs)) ELSE <<>>

\* "return assistant_messages[-1].strip() if assistant_messages else ''"
ReturnValue(msgs) ==
    IF msgs # <<>> THEN Strip(msgs[Len(msgs)]) ELSE <<>>

\* The request sent: the options' model and the prompt.
Query ==
    /\ pc = "query"
    /\ requests' = Append(requests, [model |-> model, prompt |-> Value(prompt)])
    /\ message_count' = 0
    /\ assistant_messages' = <<>>
    /\ accumulated_text' = <<>>
    /\ tool_uses' = <<>>
    /\ total_cost' = None
    /\ pc' = "receive"
    /\ UNCHANGED << stream, callbacks, result >>
    /\ UNCHANGED << cliVars, configVars, translatorVars, callVars >>

NextMessage == stream[message_count + 1]

\* One iteration of the loop on an AssistantMessage.
ReceiveAssistant ==
    /\ pc = "receive"
    /\ message_count < Len(stream)
    /\ NextMessage.type = "AssistantMessage"
    /\ LET st == ProcessBlocks(NextMessage.content,
                     [text_blocks |-> <<>>,
                      accumulated_text |-> accumulated_text,
                      tool_uses |-> tool_uses,
                      callbacks |-> callbacks])
       IN  /\ accumulated_text' = st.accumulated_text
           /\ tool_uses' = st.tool_uses
           /\ callbacks' = st.callbacks
           /\ assistant_messages' =
                 IF st.text_blocks # <<>>
                 THEN Append(assistant_messages, Join(st.text_blocks))
                 ELSE assistant_messages
    /\ message_count' = message_count + 1
    /\ UNCHANGED << pc, requests, stream, total_cost, result >>
    /\ UNCHANGED << cliVars, configVars, translatorVars, callVars >>

\* A loop that does not stop at the result message.
AfterResultContinue == "receive"

\* "break  # Exit loop on result", followed by the return.
AfterResult == "returned"

\* The iteration on a ResultMessage: cost, completion callback, break, return.
ReceiveResult ==
    /\ pc = "receive"
    /\ message_count < Len(stream)
    /\ NextMessage.type = "ResultMessage"
    /\ LET cost == IF Truthy(NextMessage.total_cost_usd)
                   THEN NextMessage.total_cost_usd
                   ELSE total_cost
       IN  /\ total_cost' = cost
           /\ callbacks' =
                 IF Truthy(cost) /\ Value(cost) > 0
                 THEN Notify(callbacks, CompleteMsg(cost), cost)
                 ELSE Notify(callbacks, CompleteMsg(None), cost)
    /\ message_count' = message_count + 1
    /\ pc' = AfterResult
    /\ result' = IF AfterResult = "returned"
                 THEN Some(ReturnValue(assistant_messages))
                 ELSE result
    /\ UNCHANGED << requests, stream, assistant_messages, accumulated_text,
                    tool_uses >>
    /\ UNCHANGED << cliVars, configVars, translatorVars, callVars >>

\* The iteration on a UserMessage or on any other message type.
ReceiveOther ==
    /\ pc = "receive"
    /\ message_count < Len(stream)
    /\ NextMessage.type \in {"UserMessage", "SystemMessage"}
    /\ message_count' = message_count + 1
    /\ UNCHANGED << pc, requests, stream, assistant_messages, accumulated_text,
                    tool_uses, total_cost, callbacks, result >>
    /\ UNCHANGED << cliVars, configVars, translatorVars, callVars >>

\* The transport raises: the exception leaves _translate_async and translate.
ReceiveError ==
    /\ pc = "receive"
    /\ message_count < Len(stream)
    /\ NextMessage.type = "raise"
    /\ pc' = "raised"
    /\ UNCHANGED exchangeVars
    /\ UNCHANGED << cliVars, configVars, translatorVars, callVars >>

\* The stream ends without a result message: the loop ends, then the return.
StreamEnd ==
    /\ pc = "receive"
    /\ message_count = Len(stream)
    /\ pc' = "returned"
    /\ result' = Some(ReturnValue(assistant_messages))
    /\ UNCHANGED << requests, stream, message_count, assistant_messages,
                    accumulated_text, tool_uses, total_cost, callbacks >>
    /\ UNCHANGED << cliVars, configVars, translatorVars, callVars >>

-----------------------------------------------------------------------------
(* Config: the configuration store and its YAML file.                      *)
(*                                                                         *)
(* A Python object held in the dict is a record [tag, v]: tag is the type  *)
(* ("str", "bool", "int", "null") and v the characters it was written      *)
(* with.  A dict is a function from key objects to value objects.  A YAML  *)
(* document is [root, entries]: root "null" is an empty file, root         *)
(* "mapping" a block mapping whose entries are pairs of scalar tokens      *)
(* [style, text], style being "plain" or "quoted".                         *)

Str(s) == [tag |-> "str", v |-> s]

EmptyDict == << >>

DictSet(d, k, v) ==
    [x \in (DOMAIN d) \cup {k} |-> IF x = k THEN v ELSE d[x]]

DictGet(d, k, default) == IF k \in DOMAIN d THEN d[k] ELSE default

\* The scalars YAML 1.1 reads as something other than a string.
YamlNull == {"", "~", "null", "Null", "NULL"}
YamlBool == {"yes", "no", "true", "false", "on", "off",
             "Yes", "No", "True", "False", "On", "Off"}
YamlInt == {"0", "7", "123"}

\* The implicit resolver: the type a plain scalar is read as.
ImplicitTag(s) ==
    CASE s \in YamlNull -> "null"
      [] s \in YamlBool -> "bool"
      [] s \in YamlInt -> "int"
      [] OTHER -> "str"

\* yaml.safe_dump of one scalar: a str that would not be read back as a str
\* is quoted.
DumpScalar(obj) ==
    [style |-> IF obj.tag = "str" /\ ImplicitTag(obj.v) # "str"
               THEN "quoted"
               ELSE "plain",
     text |-> obj.v]

\* yaml.safe_load of one scalar.
LoadScalar(tok) ==
    IF tok.style = "plain"
    THEN [tag |-> ImplicitTag(tok.text), v |-> tok.text]
    ELSE Str(tok.text)

\* The keys of the model in the order sorted() puts them.
KeyOrder == << "default_model", "native_language", "on", "theme" >>

SortedKeys(d) == SelectSeq(KeyOrder, LAMBDA k : Str(k) \in DOMAIN d)

\* yaml.safe_dump(config): a block mapping with the keys sorted.
Dump(d) ==
    [root |-> "mapping",
     entries |-> [i \in 1..Len(SortedKeys(d)) |->
                    [key |-> DumpScalar(Str(SortedKeys(d)[i])),
                     value |-> DumpScalar(d[Str(SortedKeys(d)[i])])]]]

\* "yaml.safe_load(f) or {}"
Load(doc) ==
    IF doc.root = "null" THEN EmptyDict
    ELSE [k \in { LoadScalar(doc.entries[i].key) : i \in 1..Len(doc.entries) } |->
            LET i == CHOOSE j \in 1..Len(doc.entries) :
                        /\ LoadScalar(doc.entries[j].key) = k
                        /\ \A m \in 1..Len(doc.entries) :
                              LoadScalar(doc.entries[m].key) = k => m <= j
            IN  LoadScalar(doc.entries[i].value)]

\* The language part of the system locale, "en" when there is none.
get_system_language(loc) == IF IsNone(loc) THEN "en" ELSE Value(loc)

\* _save_config: the file the dict is written to.
_save_config(d) == Some(Dump(d))

\* _load_config: the dict read, and the file as the call leaves it.
_load_config(file, loc) ==
    IF ~IsNone(file)
    THEN [config |-> Load(Value(file)), file |-> file]
    ELSE LET default_config ==
                 DictSet(DictSet(EmptyDict, Str("native_language"),
                                 Str(get_system_language(loc))),
                         Str("default_model"), Str("haiku"))
         IN  [config |-> default_config, file |-> _save_config(default_config)]

\* A setter that updates the dict and leaves the file as it was.
SetItemNoSave(d, key, value, file) ==
    [config |-> DictSet(d, Str(key), Str(value)), file |-> file]

\* The three setters: assign, then save.
SetItem(d, key, value, file) ==
    LET d2 == DictSet(d, Str(key), Str(value))
    IN  [config |-> d2, file |-> _save_config(d2)]

\* The native_language and default_model properties, and get.
GetNativeLanguage(d, loc) ==
    DictGet(d, Str("native_language"), Str(get_system_language(loc)))
GetDefaultModel(d) == DictGet(d, Str("default_model"), Str("haiku"))

ConfigKeys == {"native_language", "default_model", "theme", "on"}
ConfigValues == {"en", "ja", "no", "sonnet", "123", ""}

\* Config(): a store is constructed, the first one or a fresh one.
ConfigInit ==
    /\ pc \in {"config_new", "config_ready"}
    /\ LET loaded == _load_config(config_file, locale)
       IN  /\ _config' = Some(loaded.config)
           /\ config_file' = loaded.file
    /\ pc' = "config_ready"
    /\ UNCHANGED << last_set, ops >>
    /\ UNCHANGED << cliVars, translatorVars, callVars, exchangeVars >>

\* The ghost record of the value most recently set for each key.
Remember(key, value) ==
    [k \in (DOMAIN last_set) \cup {key} |-> IF k = key THEN value ELSE last_set[k]]

\* config.native_language = value
SetNativeLanguage ==
    /\ pc = "config_ready"
    /\ ops < MaxOps
    /\ \E v \in ConfigValues :
          LET r == SetItem(Value(_config), "native_language", v, config_file)
          IN  /\ _config' = Some(r.config)
              /\ config_file' = r.file
              /\ last_set' = Remember("native_language", v)
    /\ ops' = ops + 1
    /\ UNCHANGED pc
    /\ UNCHANGED << cliVars, translatorVars, callVars, exchangeVars >>

\* config.default_model = value
SetDefaultModel ==
    /\ pc = "config_ready"
    /\ ops < MaxOps
    /\ \E v \in ConfigValues :
          LET r == SetItem(Value(_config), "default_model", v, config_file)
          IN  /\ _config' = Some(r.config)
              /\ config_file' = r.file
              /\ last_set' = Remember("default_model", v)
    /\ ops' = ops + 1
    /\ UNCHANGED pc
    /\ UNCHANGED << cliVars, translatorVars, callVars, exchangeVars >>

\* config.set(key, value)
SetKey ==
    /\ pc = "config_ready"
    /\ ops < MaxOps
    /\ \E k \in ConfigKeys : \E v \in ConfigValues :
          LET r == SetItem(Value(_config), k, v, config_file)
          IN  /\ _config' = Some(r.config)
              /\ config_file' = r.file
              /\ last_set' = Remember(k, v)
    /\ ops' = ops + 1
    /\ UNCHANGED pc
    /\ UNCHANGED << cliVars, translatorVars, callVars, exchangeVars >>

-----------------------------------------------------------------------------
(* main: the command-line entry point.                                     *)
(*                                                                         *)
(* A line of standard output is a record [kind, text, value]: kind names   *)
(* the print statement, text is the translation printed (code points) and  *)
(* value the setting printed.                                              *)

OutLine(kind, t, v) == [kind |-> kind, text |-> t, value |-> v]

\* Truthiness of an Optional str argument: None and "" are false.
GivenText(o) == ~IsNone(o) /\ Value(o) # <<>>
GivenName(o) == ~IsNone(o) /\ Value(o) # ""

\* "Get input text": the argument as given, or standard input trimmed;
\* ok is FALSE when there is no argument and standard input is a terminal.
ReadInput(a, in) ==
    IF GivenText(a.text)
    THEN [ok |-> TRUE, text |-> Value(a.text)]
    ELSE IF in.isatty
         THEN [ok |-> FALSE, text |-> <<>>]
         ELSE [ok |-> TRUE, text |-> Strip(in.content)]

\* show_config prints the two settings after the header and the file path.
ShowConfigLines(d, loc) ==
    << OutLine("Current Configuration:", <<>>, ""),
       OutLine("Config file:", <<>>, "config.yaml"),
       OutLine("Native language:", <<>>, GetNativeLanguage(d, loc).v),
       OutLine("Default model:", <<>>, GetDefaultModel(d).v) >>

ShowVersionLines ==
    << OutLine("cctr version", <<>>, "__version__"),
       OutLine("Build time:", <<>>, "__build_time__") >>

\* main returns code after printing lines; the store is left as given.
MainReturns(code, lines, cfg, file) ==
    /\ pc' = "exit"
    /\ exit_code' = Some(code)
    /\ stdout' = stdout \o lines
    /\ _config' = cfg
    /\ config_file' = file
    /\ UNCHANGED << last_set, ops >>
    /\ UNCHANGED << translatorVars, callVars >>

\* main constructs the translator and calls translate or auto_translate.
MainTranslates(input, d, file) ==
    /\ exit_code' = exit_code
    /\ stdout' = stdout
    /\ _config' = Some(d)
    /\ config_file' = file
    /\ UNCHANGED << last_set, ops >>
    /\ model' = _resolve_model(IF GivenName(args.model)
                               THEN Value(args.model)
                               ELSE GetDefaultModel(d).v)
    /\ quiet' = args.quiet
    /\ progress_callback' = ~args.quiet
    /\ text' = input
    /\ prompt' = None
    /\ IF GivenName(args.target_language)
       THEN /\ pc' = "translate"
            /\ target_language' = Value(args.target_language)
            /\ source_language' = args.source_language
            /\ UNCHANGED native_language
       ELSE /\ pc' = "auto_translate"
            /\ native_language' = GetNativeLanguage(d, locale).v
            /\ UNCHANGED << target_language, source_language >>

\* main, from parse_args up to the call of translate or auto_translate, or
\* up to its return when it returns before.
main ==
    /\ pc = "main"
    /\ UNCHANGED << args, stdin, locale >>
    /\ UNCHANGED exchangeVars
    /\ IF args.version
       THEN MainReturns(0, ShowVersionLines, _config, config_file)
       ELSE
       LET loaded == _load_config(config_file, locale)
           d == loaded.config
           input == ReadInput(args, stdin)
       IN  IF args.show_config
           THEN MainReturns(0, ShowConfigLines(d, locale), Some(d), loaded.file)
           ELSE IF GivenName(args.set_native_lang)
           THEN LET r == SetItem(d, "native_language",
                                 Value(args.set_native_lang), loaded.file)
                IN  /\ pc' = "exit"
                    /\ exit_code' = Some(0)
                    /\ stdout' = Append(stdout,
                          OutLine("Native language set to:", <<>>,
                                  Value(args.set_native_lang)))
                    /\ _config' = Some(r.config)
                    /\ config_file' = r.file
                    /\ last_set' = Remember("native_language",
                                            Value(args.set_native_lang))
                    /\ ops' = ops + 1
                    /\ UNCHANGED << translatorVars, callVars >>
           ELSE IF GivenName(args.set_default_model)
           THEN LET r == SetItem(d, "default_model",
                                 Value(args.set_default_model), loaded.file)
                IN  /\ pc' = "exit"
                    /\ exit_code' = Some(0)
                    /\ stdout' = Append(stdout,
                          OutLine("Default model set to:", <<>>,
                                  Value(args.set_default_model)))
                    /\ _config' = Some(r.config)
                    /\ config_file' = r.file
                    /\ last_set' = Remember("default_model",
                                            Value(args.set_default_model))
                    /\ ops' = ops + 1
                    /\ UNCHANGED << translatorVars, callVars >>
           ELSE IF ~input.ok
           THEN MainReturns(1, <<>>, Some(d), loaded.file)
           ELSE IF input.text = <<>>
           THEN MainReturns(1, <<>>, Some(d), loaded.file)
           ELSE MainTranslates(input.text, d, loaded.file)

\* translate returned: "print(result, flush=True)" and "return 0".
main_output ==
    /\ pc = "returned"
    /\ stdout' = Append(stdout, OutLine("result", Value(result), ""))
    /\ exit_code' = Some(0)
    /\ pc' = "exit"
    /\ UNCHANGED << args, stdin, locale >>
    /\ UNCHANGED << configVars, translatorVars, callVars, exchangeVars >>

\* A handler that prints the last turn received before the failure.
main_except_partial ==
    /\ pc = "raised"
    /\ stdout' = IF assistant_messages # <<>>
                 THEN Append(stdout,
                        OutLine("result", ReturnValue(assistant_messages), ""))
                 ELSE stdout
    /\ exit_code' = Some(1)
    /\ pc' = "exit"
    /\ UNCHANGED << args, stdin, locale >>
    /\ UNCHANGED << configVars, translatorVars, callVars, exchangeVars >>

\* A handler that sends the request once more before giving up.
main_except_retry ==
    /\ pc = "raised"
    /\ IF Len(requests) < 2
       THEN pc' = "query" /\ UNCHANGED exit_code
       ELSE pc' = "exit" /\ exit_code' = Some(1)
    /\ UNCHANGED << args, stdin, locale, stdout >>
    /\ UNCHANGED << configVars, translatorVars, callVars, exchangeVars >>

\* translate raised: "except Exception" and "return 1".
main_except ==
    /\ pc = "raised"
    /\ exit_code' = Some(1)
    /\ pc' = "exit"
    /\ UNCHANGED << args, stdin, locale, stdout >>
    /\ UNCHANGED << configVars, translatorVars, callVars, exchangeVars >>

-----------------------------------------------------------------------------
(* Values shared by the initial states.                                    *)

NoArgs ==
    [version |-> FALSE, show_config |-> FALSE,
     set_native_lang |-> None, set_default_model |-> None,
     text |-> None, target_language |-> None, source_language |-> None,
     model |-> None, quiet |-> FALSE]

NoStdin == [isatty |-> TRUE, content |-> <<>>]

IdleCli ==
    /\ args = NoArgs
    /\ stdin = NoStdin
    /\ locale = "en"
    /\ exit_code = None
    /\ stdout = <<>>

IdleConfig ==
    /\ config_file = None
    /\ _config = None
    /\ last_set = <<>>
    /\ ops = 0

IdleExchange ==
    /\ requests = <<>>
    /\ stream = <<>>
    /\ message_count = 0
    /\ assistant_messages = <<>>
    /\ accumulated_text = <<>>
    /\ tool_uses = <<>>
    /\ total_cost = None
    /\ callbacks = <<>>
    /\ result = None

-----------------------------------------------------------------------------
(* Detection and target selection on their own: the text is drawn from all *)
(* strings over code points at and around the ends of the three ranges.    *)

BoundaryChars ==
    { 32, 65,
      HiraganaStart - 1, HiraganaStart, HiraganaEnd,
      KatakanaStart, KatakanaEnd, KatakanaEnd + 1,
      KanjiStart - 1, KanjiStart, KanjiEnd, KanjiEnd + 1 }

NativeLanguages == {"en", "ja", "fr"}

InitDetect ==
    /\ pc = "auto_translate"
    /\ text \in SeqUpTo(BoundaryChars, MaxTextLen)
    /\ native_language \in NativeLanguages
    /\ target_language = "en"
    /\ source_language = None
    /\ prompt = None
    /\ model = _resolve_model("haiku")
    /\ quiet = FALSE
    /\ progress_callback = FALSE
    /\ IdleCli
    /\ IdleConfig
    /\ IdleExchange

NextDetect ==
    \/ auto_translate
    \/ translate
    \/ Query

SpecDetect == InitDetect /\ [][NextDetect]_vars

-----------------------------------------------------------------------------
(* The exchange on its own: a translator built with any combination of     *)
(* quiet and callback, and every stream of at most MaxEvents messages.     *)

LongText == [i \in 1..LongLen |-> 65]
Bonjour == <<32, 66, 111, 32>>
Salut == <<83, 97>>

StreamMessages ==
    { AssistantMessage(<<TextBlock(Bonjour)>>),
      AssistantMessage(<<TextBlock(Salut), ToolUseBlock("Bash"), TextBlock(<<32>>)>>),
      AssistantMessage(<<TextBlock(LongText)>>),
      AssistantMessage(<<ToolUseBlock("Read"), ThinkingBlock>>),
      AssistantMessage(<<TextBlock(<<>>)>>),
      UserMessage,
      SystemMessage,
      ResultMessage(None),
      ResultMessage(Some(0)),
      ResultMessage(Some(1234)),
      TransportRaise }

FixedPrompt == BuildPrompt("en", "fr", <<72, 105>>)

InitStream ==
    /\ pc = "query"
    /\ text = <<72, 105>>
    /\ native_language = "fr"
    /\ target_language = "fr"
    /\ source_language = Some("en")
    /\ prompt = Some(FixedPrompt)
    /\ model = _resolve_model("haiku")
    /\ quiet \in BOOLEAN
    /\ progress_callback \in BOOLEAN
    /\ IdleCli
    /\ IdleConfig
    /\ requests = <<>>
    /\ stream \in SeqUpTo(StreamMessages, MaxEvents)
    /\ message_count = 0
    /\ assistant_messages = <<>>
    /\ accumulated_text = <<>>
    /\ tool_uses = <<>>
    /\ total_cost = None
    /\ callbacks = <<>>
    /\ result = None

NextStream ==
    \/ Query
    \/ ReceiveAssistant
    \/ ReceiveResult
    \/ ReceiveOther
    \/ ReceiveError
    \/ StreamEnd

SpecStream == InitStream /\ [][NextStream]_vars

-----------------------------------------------------------------------------
(* The configuration store on its own: a store is constructed over a file  *)
(* that is absent, empty, or was written by the store, then any sequence   *)
(* of at most MaxOps set operations and fresh constructions follows.       *)

WrittenDict ==
    DictSet(DictSet(EmptyDict, Str("native_language"), Str("ja")),
            Str("default_model"), Str("sonnet"))

InitialFiles ==
    { None,
      Some([root |-> "null", entries |-> <<>>]),
      Some(Dump(WrittenDict)) }

Locales == { None, Some("ja") }

InitConfig ==
    /\ pc = "config_new"
    /\ config_file \in InitialFiles
    /\ locale \in Locales
    /\ _config = None
    /\ last_set = << >>
    /\ ops = 0
    /\ args = NoArgs
    /\ stdin = NoStdin
    /\ exit_code = None
    /\ stdout = <<>>
    /\ model = _resolve_model("haiku")
    /\ quiet = FALSE
    /\ progress_callback = FALSE
    /\ text = <<>>
    /\ native_language = "en"
    /\ target_language = "en"
    /\ source_language = None
    /\ prompt = None
    /\ IdleExchange

NextConfig ==
    \/ ConfigInit
    \/ SetNativeLanguage
    \/ SetDefaultModel
    \/ SetKey

SpecConfig == InitConfig /\ [][NextConfig]_vars

-----------------------------------------------------------------------------
(* One invocation of the command line.                                     *)

Hi == <<72, 105>>
Konnichiwa == <<12371, 12435>>
Blank == <<32, 32>>

ArgTexts == { None, Some(<<>>), Some(Blank), Some(Hi), Some(Konnichiwa) }

Stdins ==
    { [isatty |-> TRUE, content |-> <<>>],
      [isatty |-> FALSE, content |-> <<32, 10>>],
      [isatty |-> FALSE, content |-> <<32, 72, 105, 10>>] }

CliStreams ==
    { << AssistantMessage(<<TextBlock(Bonjour)>>), ResultMessage(Some(1234)) >>,
      << AssistantMessage(<<TextBlock(Bonjour)>>), TransportRaise >>,
      << TransportRaise >>,
      << ResultMessage(None) >>,
      << AssistantMessage(<<ToolUseBlock("Bash")>>), UserMessage,
         AssistantMessage(<<TextBlock(Salut)>>), ResultMessage(Some(0)),
         AssistantMessage(<<TextBlock(Bonjour)>>) >>,
      << AssistantMessage(<<TextBlock(Salut)>>) >> }

Init ==
    /\ pc = "main"
    /\ args \in [version : BOOLEAN, show_config : BOOLEAN,
                 set_native_lang : {None, Some("no"), Some("")},
                 set_default_model : {None, Some("opus")},
                 text : ArgTexts,
                 target_language : {None, Some("fr")},
                 source_language : {None, Some("ja")},
                 model : {None, Some("opus"), Some("unknown-model-x")},
                 quiet : BOOLEAN]
    /\ stdin \in Stdins
    /\ locale \in Locales
    /\ config_file \in InitialFiles
    /\ _config = None
    /\ last_set = << >>
    /\ ops = 0
    /\ exit_code = None
    /\ stdout = <<>>
    /\ model = _resolve_model("haiku")
    /\ quiet = FALSE
    /\ progress_callback = FALSE
    /\ text = <<>>
    /\ native_language = "en"
    /\ target_language = "en"
    /\ source_language = None
    /\ prompt = None
    /\ requests = <<>>
    /\ stream \in CliStreams
    /\ message_count = 0
    /\ assistant_messages = <<>>
    /\ accumulated_text = <<>>
    /\ tool_uses = <<>>
    /\ total_cost = None
    /\ callbacks = <<>>
    /\ result = None

Next ==
    \/ main
    \/ auto_translate
    \/ translate
    \/ Query
    \/ ReceiveAssistant
    \/ ReceiveResult
    \/ ReceiveOther
    \/ ReceiveError
    \/ StreamEnd
    \/ main_output
    \/ main_except

Spec == Init /\ [][Next]_vars

-----------------------------------------------------------------------------
(* Properties.                                                             *)

\* The language the claims expect for a text: Japanese when some character
\* lies in one of the three blocks, English otherwise.
HasJapaneseChar(t) ==
    \E i \in 1..Len(t) :
        \/ (12352 <= t[i] /\ t[i] <= 12447)
        \/ (12448 <= t[i] /\ t[i] <= 12543)
        \/ (19968 <= t[i] /\ t[i] <= 40959)

\* The target the auto-translate policy is to pick.
PolicyTarget(detected, native) == IF detected = native THEN "en" ELSE native

\* C1: once auto_translate has run, the translation it asks for has source
\* detect(text) and target "en" when detect(text) is the native language and
\* the native language otherwise, also when both are "en"; the request sent
\* carries the display names of exactly these two languages and the text.
C1_AutoTranslateRequest ==
    /\ pc \in {"translate", "query", "receive"} =>
          /\ source_language = Some(detect(text))
          /\ target_language = PolicyTarget(detect(text), native_language)
          /\ (native_language = "en" /\ detect(text) = "en"
                 => target_language = "en")
    /\ pc = "receive" =>
          /\ Len(requests) = 1
          /\ requests[1].prompt =
                [source |-> _get_language_name(detect(text)),
                 target |-> _get_language_name(
                               PolicyTarget(detect(text), native_language)),
                 text |-> text]

\* C1 witness: an English text with native language "en" was requested as a
\* translation from English to English.
C1_Witness ==
    /\ pc = "receive"
    /\ native_language = "en"
    /\ text = <<65, 65>>
    /\ source_language = Some("en")
    /\ target_language = "en"
    /\ requests[1].prompt.source = "English"
    /\ requests[1].prompt.target = "English"

\* C2: the language detected for a text is "ja" exactly when the text holds
\* a character in U+3040-U+309F, U+30A0-U+30FF or U+4E00-U+9FFF, and "en"
\* for every other text, the empty text included; no other value occurs.
C2_DetectJapaneseIff ==
    pc \in {"translate", "query", "receive"} =>
        /\ ~IsNone(source_language)
        /\ Value(source_language) \in {"ja", "en"}
        /\ Value(source_language) = "ja" <=> HasJapaneseChar(text)
        /\ text = <<>> => Value(source_language) = "en"

\* C2 witness: a text whose only Japanese character is the last Katakana
\* code point, after a character just below the Hiragana block, was
\* detected as "ja".
C2_Witness ==
    /\ pc = "translate"
    /\ text = <<12351, 12543>>
    /\ source_language = Some("ja")

\* The positions at which consumption of a stream must stop: the first
\* result message, or the point where the transport raises.
StopPositions(st) ==
    { i \in 1..Len(st) : st[i].type \in {"ResultMessage", "raise"} }

FirstStop(st) ==
    CHOOSE i \in StopPositions(st) : \A j \in StopPositions(st) : i <= j

\* The number of messages of a stream that are to be consumed.
ExpectedConsumed(st) ==
    IF StopPositions(st) = {} THEN Len(st)
    ELSE IF st[FirstStop(st)].type = "ResultMessage"
         THEN FirstStop(st)
         ELSE FirstStop(st) - 1

\* How the exchange over a stream is to end.
ExpectedOutcome(st) ==
    IF StopPositions(st) # {} /\ st[FirstStop(st)].type = "raise"
    THEN "raised"
    ELSE "returned"

\* The text segments of one message, in order.
TextSegments(content) ==
    SelectSeq(content, LAMBDA b : b.type = "TextBlock")

RECURSIVE Concat(_)
Concat(blocks) ==
    IF blocks = <<>> THEN <<>> ELSE Head(blocks).text \o Concat(Tail(blocks))

\* The turn strings a sequence of messages is to yield, in order.
RECURSIVE TurnsOf(_)
TurnsOf(msgs) ==
    IF msgs = <<>> THEN <<>>
    ELSE LET m == Head(msgs)
         IN  IF m.type = "AssistantMessage" /\ TextSegments(m.content) # <<>>
             THEN <<Concat(TextSegments(m.content))>> \o TurnsOf(Tail(msgs))
             ELSE TurnsOf(Tail(msgs))

\* The string translate is to return for the messages consumed.
FinalTurn(msgs) ==
    LET turns == TurnsOf(msgs)
    IN  IF turns = <<>> THEN <<>> ELSE Strip(turns[Len(turns)])

Consumed == SubSeq(stream, 1, message_count)

\* What the callback is to be told, one entry per invocation: the kind of
\* notice, the tool name, and the cost argument.  zeroCounts says whether a
\* reported cost of zero is carried as a cost.
Notice(kind, name, cost) == [kind |-> kind, name |-> name, cost |-> cost]

RECURSIVE BlockNotices(_)
BlockNotices(content) ==
    IF content = <<>> THEN <<>>
    ELSE LET b == Head(content)
         IN  (CASE b.type = "TextBlock" -> <<Notice("Translating", "", <<>>)>>
                [] b.type = "ToolUseBlock" -> <<Notice("Using tool", b.name, <<>>)>>
                [] OTHER -> <<>>)
             \o BlockNotices(Tail(content))

RECURSIVE StreamNotices(_, _)
StreamNotices(msgs, zeroCounts) ==
    IF msgs = <<>> THEN <<>>
    ELSE LET m == Head(msgs) 
             reported == m.total_cost_usd
             carried == IF reported # <<>> /\ (zeroCounts \/ reported[1] # 0)
                        THEN reported
                        ELSE <<>>
         IN  (CASE m.type = "AssistantMessage" -> BlockNotices(m.content)
                [] m.type = "ResultMessage" ->
                      <<Notice("Translation complete", "", carried)>>
                [] OTHER -> <<>>)
             \o StreamNotices(Tail(msgs), zeroCounts)

CallbacksSeen ==
    [i \in 1..Len(callbacks) |->
        Notice(callbacks[i].message.kind, callbacks[i].message.name,
               callbacks[i].cost)]

\* C3: when the exchange completes without a transport error, translate
\* returns the last collected turn with its leading and trailing whitespace
\* removed, the empty string when no turn was collected, and nothing of an
\* earlier turn.
C3_ReturnsLastTurnTrimmed ==
    pc = "returned" =>
        /\ ~IsNone(result)
        /\ Value(result) = FinalTurn(SubSeq(stream, 1, ExpectedConsumed(stream)))
        /\ TurnsOf(Consumed) = <<>> => Value(result) = <<>>
        /\ Value(result) # <<>> =>
              /\ ~IsSpace(Value(result)[1])
              /\ ~IsSpace(Value(result)[Len(Value(result))])

\* C3 witness: two different turns were collected, the last one with blanks
\* around it, and the result is that last turn without the blanks.
C3_Witness ==
    /\ pc = "returned"
    /\ Len(assistant_messages) = 2
    /\ assistant_messages[1] = <<83, 97, 32>>
    /\ assistant_messages[2] = <<32, 66, 111, 32>>
    /\ result = Some(<<66, 111>>)

\* C7: messages are consumed in arrival order up to the first result
\* message and no further: nothing before the last consumed position is a
\* result message, consuming a result message ends the call, and the turns,
\* the returned string and the number of callbacks are those of the
\* consumed prefix alone.
C7_StopsAtFirstResult ==
    pc \in {"receive", "returned", "raised"} =>
        /\ message_count <= Len(stream)
        /\ \A i \in 1..(message_count - 1) :
              stream[i].type \notin {"ResultMessage", "raise"}
        /\ (message_count >= 1 /\ stream[message_count].type = "ResultMessage")
              => pc = "returned"
        /\ message_count <= ExpectedConsumed(stream)
        /\ assistant_messages = TurnsOf(Consumed)
        /\ Len(callbacks) = IF progress_callback /\ ~quiet
                            THEN Len(StreamNotices(Consumed, FALSE))
                            ELSE 0
        /\ pc = "returned" =>
              /\ message_count = ExpectedConsumed(stream)
              /\ result = Some(FinalTurn(Consumed))

\* C7 witness: the call returned at a result message that is followed by an
\* assistant message with text, which was not consumed.
C7_Witness ==
    /\ pc = "returned"
    /\ message_count = 2
    /\ Len(stream) = 3
    /\ stream[1] = AssistantMessage(<<TextBlock(<<32, 66, 111, 32>>)>>)
    /\ stream[2].type = "ResultMessage"
    /\ stream[3] = AssistantMessage(<<TextBlock([i \in 1..LongLen |-> 65])>>)
    /\ result = Some(<<66, 111>>)
    /\ progress_callback /\ ~quiet
    /\ Len(callbacks) = 2

\* C8 as stated: with a callback and quiet off, the callback is invoked once
\* per text chunk and once per tool block consumed, in arrival order, with
\* no cost, and once more, last, at the result message, with the cost that
\* message reports, whatever it is, and no cost when it reports none; every
\* preview is at most 50 characters long.
C8_CallbacksAsStated ==
    (progress_callback /\ ~quiet /\ pc \in {"receive", "returned", "raised"}) =>
        /\ CallbacksSeen = StreamNotices(Consumed, TRUE)
        /\ \A i \in 1..Len(callbacks) : Len(callbacks[i].message.preview) <= 50

\* C8 amended: as above, but the final invocation carries the cost only
\* when the result message reports a cost other than zero; a reported cost
\* of zero is passed on as no cost.
C8_CallbacksNonZeroCost ==
    (progress_callback /\ ~quiet /\ pc \in {"receive", "returned", "raised"}) =>
        /\ CallbacksSeen = StreamNotices(Consumed, FALSE)
        /\ \A i \in 1..Len(callbacks) : Len(callbacks[i].message.preview) <= 50
        /\ (pc = "returned" /\ message_count >= 1
               /\ stream[message_count].type = "ResultMessage") =>
              /\ callbacks # <<>>
              /\ callbacks[Len(callbacks)].message.kind = "Translation complete"

\* C8 witness: text chunks, a tool block and a result message reporting a
\* cost were consumed; the accumulated text had outgrown 50 characters and
\* its preview is exactly 50 long; the last invocation carries the cost.
C8_Witness ==
    /\ pc = "returned"
    /\ progress_callback /\ ~quiet
    /\ Len(callbacks) = 5
    /\ callbacks[2].message.kind = "Using tool"
    /\ Len(accumulated_text) > 50
    /\ Len(callbacks[4].message.preview) = 50
    /\ callbacks[5].message.kind = "Translation complete"
    /\ callbacks[5].cost = <<1234>>

\* C9: what translate consumes and returns depends on the stream alone:
\* whether a callback is supplied and whether quiet is set, the call ends
\* the same way, after the same number of messages, with the same turns and
\* the same returned string; without a callback, or in quiet mode, the
\* callback is never invoked.
C9_CallbackObservesOnly ==
    /\ pc \in {"returned", "raised"} =>
          /\ pc = ExpectedOutcome(stream)
          /\ message_count = ExpectedConsumed(stream)
          /\ assistant_messages =
                TurnsOf(SubSeq(stream, 1, ExpectedConsumed(stream)))
          /\ pc = "returned" =>
                result = Some(FinalTurn(SubSeq(stream, 1, ExpectedConsumed(stream))))
          /\ pc = "raised" => IsNone(result)
    /\ (~progress_callback \/ quiet) => callbacks = <<>>

\* C9 witness: a call whose callback was invoked for text and for the
\* result returned the trimmed last turn.
C9_Witness ==
    /\ pc = "returned"
    /\ progress_callback /\ ~quiet
    /\ Len(callbacks) = 3
    /\ callbacks[1].message.kind = "Translating"
    /\ message_count = 3
    /\ Len(assistant_messages) = 2
    /\ result = Some(<<66, 111>>)

\* The exchange of this invocation failed: a request was sent and translate
\* raised instead of returning.
ExchangeFailed ==
    /\ pc \in {"raised", "exit"}
    /\ requests # <<>>
    /\ IsNone(result)

ResultLines ==
    SelectSeq(stdout, LAMBDA line : line.kind = "result")

\* C4: when the transport raises at any point of the exchange, also after
\* turns were received, nothing is written to standard output, no further
\* request is made and main returns 1; a translation is printed only by a
\* run whose exchange completed, which prints the whole trimmed final turn,
\* that alone, and returns 0.
C4_NoOutputOnFailure ==
    /\ ExchangeFailed =>
          /\ stdout = <<>>
          /\ Len(requests) = 1
          /\ pc = "exit" => exit_code = Some(1)
    /\ ResultLines # <<>> =>
          /\ pc = "exit"
          /\ exit_code = Some(0)
          /\ ExpectedOutcome(stream) = "returned"
          /\ ~IsNone(result)
          /\ stdout = << OutLine("result",
                           FinalTurn(SubSeq(stream, 1, ExpectedConsumed(stream))),
                           "") >>
    /\ (pc = "exit" /\ ~IsNone(result)) =>
          /\ exit_code = Some(0)
          /\ ResultLines # <<>>

\* C4 witness: the transport raised after a turn had been received; main
\* returned 1 and standard output is empty.
C4_Witness ==
    /\ pc = "exit"
    /\ exit_code = Some(1)
    /\ assistant_messages = << <<32, 66, 111, 32>> >>
    /\ message_count = 1
    /\ stream[2].type = "raise"
    /\ stdout = <<>>
    /\ Len(requests) = 1

\* The invocation runs no command, so its input text is to be translated.
NoCommand ==
    /\ ~args.version
    /\ ~args.show_config
    /\ ~GivenName(args.set_native_lang)
    /\ ~GivenName(args.set_default_model)

\* The text supplied, by argument or, without argument, by standard input.
InputSupplied == GivenText(args.text) \/ ~stdin.isatty
SuppliedText == IF GivenText(args.text) THEN Value(args.text) ELSE stdin.content

\* C5: however the input is supplied, a text that is empty after trimming
\* whitespace leads to no request and to exit code 1, and every request
\* sent carries a text that is non-empty after trimming.
C5_BlankInputNeverRequested ==
    /\ \A i \in 1..Len(requests) : Strip(requests[i].prompt.text) # <<>>
    /\ (NoCommand /\ InputSupplied /\ Strip(SuppliedText) = <<>>) =>
          /\ requests = <<>>
          /\ pc = "exit" => exit_code = Some(1)

\* C6: an invocation sends at most one request: none when main returns
\* before translating, exactly one, carrying the translator's model and the
\* prompt built, once a translation is attempted, and still one after the
\* exchange failed or returned an empty result.
C6_AtMostOneRequest ==
    /\ Len(requests) <= 1
    /\ pc \in {"main", "auto_translate", "translate", "query"} => requests = <<>>
    /\ pc \in {"receive", "returned", "raised"} =>
          requests = << [model |-> model, prompt |-> Value(prompt)] >>
    /\ pc = "exit" =>
          Len(requests) = (IF IsNone(prompt) THEN 0 ELSE 1)

\* C6 witness: the exchange returned an empty result, main printed it and
\* returned 0, and one request had been sent.
C6_Witness ==
    /\ pc = "exit"
    /\ result = Some(<<>>)
    /\ exit_code = Some(0)
    /\ Len(requests) = 1
    /\ stream = << ResultMessage(None) >>

\* C10: in a constructed store, after any sequence of set operations, the
\* file read back equals the dict in memory, and both the store and a
\* freshly constructed one return, for every key set so far, the value most
\* recently set for it as the string it was set to.
C10_PersistedEqualsMemory ==
    pc = "config_ready" =>
        /\ ~IsNone(config_file)
        /\ Load(Value(config_file)) = Value(_config)
        /\ LET fresh == _load_config(config_file, locale)
           IN  /\ fresh.file = config_file
               /\ \A k \in DOMAIN last_set :
                     /\ DictGet(fresh.config, Str(k), Str("<default>"))
                           = Str(last_set[k])
                     /\ DictGet(Value(_config), Str(k), Str("<default>"))
                           = Str(last_set[k])
               /\ "native_language" \in DOMAIN last_set =>
                     GetNativeLanguage(fresh.config, locale).v
                        = last_set["native_language"]

\* C10 witness: the native language was set to "no", the default model to
\* "123" and a further key was set, and the file holds all three.
C10_Witness ==
    /\ pc = "config_ready"
    /\ ops = 3
    /\ DOMAIN last_set = {"native_language", "default_model", "on"}
    /\ last_set["native_language"] = "no"
    /\ last_set["default_model"] = "123"
    /\ Len(Value(config_file).entries) = 3
    /\ Load(Value(config_file))[Str("native_language")] = Str("no")

\* The model name an invocation asks for: --model when given, else the
\* stored default model.
RequestedModel ==
    IF GivenName(args.model)
    THEN Value(args.model)
    ELSE GetDefaultModel(Value(_config)).v

\* The concrete identifier each alias stands for; any other name stands for
\* itself.
ConcreteModel(name) ==
    CASE name = "haiku" -> "claude-3-5-haiku-20241022"
      [] name = "sonnet" -> "claude-3-5-sonnet-20241022"
      [] name = "opus" -> "claude-opus-4-20250514"
      [] OTHER -> name

\* C11: once main has built the translator, its model is the concrete
\* identifier of the requested name when that name is "haiku", "sonnet" or
\* "opus" and the requested name itself otherwise, and the model sent with
\* every request is that resolved one.
C11_ModelResolved ==
    /\ pc \in {"auto_translate", "translate", "query", "receive",
               "returned", "raised"} =>
          /\ model = ConcreteModel(RequestedModel)
          /\ RequestedModel \notin {"haiku", "sonnet", "opus"} =>
                model = RequestedModel
    /\ \A i \in 1..Len(requests) :
          /\ requests[i].model = ConcreteModel(RequestedModel)
          /\ requests[i].model \notin {"haiku", "sonnet", "opus"}

\* C11 witness: the stored default model "sonnet" was used, and the request
\* carries its concrete identifier.
C11_Witness ==
    /\ pc = "receive"
    /\ IsNone(args.model)
    /\ GetDefaultModel(Value(_config)).v = "sonnet"
    /\ requests[1].model = "claude-3-5-sonnet-20241022"

\* The stream seen as the events the turn definition speaks of: every
\* content block of an assistant message is an event, a text segment when
\* it is a text block and a non-text event otherwise; every other message
\* is one non-text event.
NonTextEvent == [isText |-> FALSE, seg |-> <<>>]

RECURSIVE BlockEvents(_)
BlockEvents(content) ==
    IF content = <<>> THEN <<>>
    ELSE (IF Head(content).type = "TextBlock"
          THEN <<[isText |-> TRUE, seg |-> Head(content).text]>>
          ELSE <<NonTextEvent>>)
         \o BlockEvents(Tail(content))

RECURSIVE StreamEvents(_)
StreamEvents(msgs) ==
    IF msgs = <<>> THEN <<>>
    ELSE (IF Head(msgs).type = "AssistantMessage"
          THEN BlockEvents(Head(msgs).content)
          ELSE <<NonTextEvent>>)
         \o StreamEvents(Tail(msgs))

\* The bursts of a sequence of events: the maximal runs of text segments,
\* each concatenated, a run ending at a non-text event or at the end.
RECURSIVE BurstsFrom(_, _, _)
BurstsFrom(events, current, open) ==
    IF events = <<>> THEN (IF open THEN <<current>> ELSE <<>>)
    ELSE IF Head(events).isText
         THEN BurstsFrom(Tail(events), current \o Head(events).seg, TRUE)
         ELSE (IF open THEN <<current>> ELSE <<>>)
              \o BurstsFrom(Tail(events), <<>>, FALSE)

Bursts(events) == BurstsFrom(events, <<>>, FALSE)

\* C12 as stated: when the call has returned, the turns collected are, in
\* order, the contiguous bursts of text of the consumed events, a burst
\* ending at a non-text event or at the end of the stream, so that text
\* segments with a non-text event between them are in different turns.
C12_TurnsAreBursts ==
    pc = "returned" => assistant_messages = Bursts(StreamEvents(Consumed))

\* The consumed assistant messages that hold at least one text block.
TextMessagePositions ==
    { i \in 1..message_count :
        /\ stream[i].type = "AssistantMessage"
        /\ \E b \in 1..Len(stream[i].content) :
              stream[i].content[b].type = "TextBlock" }

\* C12 amended: each collected turn is the concatenation, in order, of all
\* text segments of one assistant message that has a text segment, tool
\* blocks between them notwithstanding; there is one turn per such message,
\* in arrival order, and text of two messages is never in one turn.
C12_TurnPerAssistantMessage ==
    pc \in {"receive", "returned", "raised"} =>
        /\ Len(assistant_messages) = Cardinality(TextMessagePositions)
        /\ \A i \in TextMessagePositions :
              assistant_messages[Cardinality({ j \in TextMessagePositions : j <= i })]
                 = Concat(TextSegments(stream[i].content))

\* C12 witness: a message with text on both sides of a tool block gave one
\* turn holding both texts, and the text message right after it, with no
\* event in between, gave a second turn.
C12_Witness ==
    /\ pc = "receive"
    /\ message_count = 2
    /\ stream[1].content =
          <<TextBlock(<<83, 97>>), ToolUseBlock("Bash"), TextBlock(<<32>>)>>
    /\ stream[2].content = <<TextBlock(<<32, 66, 111, 32>>)>>
    /\ assistant_messages = << <<83, 97, 32>>, <<32, 66, 111, 32>> >>

\* What an invocation has done so far, by its traces in the state.
StdoutKinds == { stdout[i].kind : i \in 1..Len(stdout) }

Performed ==
    (IF "cctr version" \in StdoutKinds THEN {"show-version"} ELSE {})
    \cup (IF "Current Configuration:" \in StdoutKinds THEN {"show-config"} ELSE {})
    \cup (IF "native_language" \in DOMAIN last_set \/ "Native language set to:" \in StdoutKinds
          THEN {"set-native-language"} ELSE {})
    \cup (IF "default_model" \in DOMAIN last_set \/ "Default model set to:" \in StdoutKinds
          THEN {"set-default-model"} ELSE {})
    \cup (IF \/ pc \in {"auto_translate", "translate", "query", "receive",
                        "returned", "raised"}
             \/ ~IsNone(prompt)
             \/ requests # <<>>
             \/ "result" \in StdoutKinds
          THEN {"translate"} ELSE {})

\* A flag with a value was given on the command line, whatever the value.
FlagGiven(o) == ~IsNone(o)

\* The priority rule, for a given reading Given of "the flag is present":
\* only the action of the first flag present is performed, translate only
\* when none is present; no request is sent when a command flag is present;
\* and with both set flags only the native language is written, the stored
\* default model not becoming the value of --set-default-model.
PriorityRule(Given(_)) ==
    LET selected ==
            IF args.version THEN "show-version"
            ELSE IF args.show_config THEN "show-config"
            ELSE IF Given(args.set_native_lang) THEN "set-native-language"
            ELSE IF Given(args.set_default_model) THEN "set-default-model"
            ELSE "translate"
    IN  /\ Performed \subseteq {selected}
        /\ selected # "translate" => requests = <<>>
        /\ (pc = "exit" /\ selected = "set-native-language"
               /\ Given(args.set_default_model)) =>
              /\ DOMAIN last_set = {"native_language"}
              /\ GetNativeLanguage(Value(_config), locale).v
                    = Value(args.set_native_lang)
              /\ Load(Value(config_file)) = Value(_config)
              /\ GetDefaultModel(Value(_config)).v # Value(args.set_default_model)

\* C13: an invocation performs at most one of show-version, show-config,
\* set-native-language, set-default-model and translate, the one of the
\* first flag that is present in that order; with any of the four command
\* flags present no request is sent, and with both --set-native-lang and
\* --set-default-model present only the native language is written.
C13_OneActionByPriority == PriorityRule(FlagGiven)

\* The same rule when a set flag counts as present only with a non-empty
\* value: this is what main's truthiness tests implement.
C13_PriorityForNonEmptyValues == PriorityRule(GivenName)

====
